---- MODULE Spec2Model ----
(***************************************************************************)
(* Hardware Engineering Workbench (src/het.py): the SQLite store           *)
(* (components, projects, bom, price_history, activity_log), the handlers  *)
(* that write it, the price-update worker thread, and the views derived    *)
(* from the store.                                                         *)
(*                                                                         *)
(* Text that the code trims or parses is a sequence of one-character       *)
(* strings, so that strip(), int() and float() are computed as Python      *)
(* computes them.  A nullable INTEGER/REAL column is <<>> for SQL NULL and *)
(* <<v>> for the value v.  Prices are whole currency units.                *)
(***************************************************************************)
EXTENDS Integers, Sequences, FiniteSets, TLC

\* ------------------------------------------------------------- bounds
\* Largest number of handlers the user starts in a behaviour.
MaxSteps == 3
\* Largest number of data rows in an imported CSV file.
MaxCsvRows == 2
\* Largest number of per-component price updates applied to a drawn store.
MaxUpdates == 1

\* ------------------------------------------------------------- Python helpers

WS == " "

RECURSIVE lstrip(_)
lstrip(s) == IF s # <<>> /\ Head(s) = WS THEN lstrip(Tail(s)) ELSE s

RECURSIVE rstrip(_)
rstrip(s) ==
    IF s # <<>> /\ s[Len(s)] = WS THEN rstrip(SubSeq(s, 1, Len(s) - 1)) ELSE s

\* A strip() that trims nothing.
strip_nothing(s) == s

\* str.strip()
strip(s) == rstrip(lstrip(s))

DigitChars == {"0", "1", "2", "3", "4", "5", "6", "7", "8", "9"}

DigitVal(c) ==
    CASE c = "0" -> 0 [] c = "1" -> 1 [] c = "2" -> 2 [] c = "3" -> 3
      [] c = "4" -> 4 [] c = "5" -> 5 [] c = "6" -> 6 [] c = "7" -> 7
      [] c = "8" -> 8 [] c = "9" -> 9

IsDigits(s) == s # <<>> /\ \A i \in 1..Len(s) : s[i] \in DigitChars

RECURSIVE DigitsVal(_)
DigitsVal(s) ==
    IF s = <<>> THEN 0
    ELSE 10 * DigitsVal(SubSeq(s, 1, Len(s) - 1)) + DigitVal(s[Len(s)])

\* int(text): surrounding whitespace is ignored, an optional sign, then
\* decimal digits; anything else raises ValueError.
int(s) ==
    LET t == strip(s) IN
    IF IsDigits(t) THEN [ok |-> TRUE, val |-> DigitsVal(t)]
    ELSE IF t # <<>> /\ Head(t) = "-" /\ IsDigits(Tail(t))
         THEN [ok |-> TRUE, val |-> 0 - DigitsVal(Tail(t))]
    ELSE IF t # <<>> /\ Head(t) = "+" /\ IsDigits(Tail(t))
         THEN [ok |-> TRUE, val |-> DigitsVal(Tail(t))]
    ELSE [ok |-> FALSE, val |-> 0]

\* float(text) on the texts the model draws (no fraction, no exponent).
float(s) == int(s)

\* int(text or 0) / float(text or 0.0): the empty text is falsy.
int_or_0(s) == IF s = <<>> THEN [ok |-> TRUE, val |-> 0] ELSE int(s)

float_or_0(s) == IF s = <<>> THEN [ok |-> TRUE, val |-> 0] ELSE float(s)

\* ------------------------------------------------------------- SQLite helpers

\* SQL NULL in a nullable numeric column, and a stored value.
NULL == <<>>

Val(v) == <<v>>

MaxOf(S) == CHOOSE m \in S : \A x \in S : x <= m

\* INTEGER PRIMARY KEY without AUTOINCREMENT: one more than the largest
\* rowid now in the table (a deleted largest rowid is assigned again).
NextRowId(table) ==
    IF table = {} THEN 1 ELSE MaxOf({r.id : r \in table}) + 1

\* sqlite3.connect(path) keeps check_same_thread at its default: the
\* connection and its cursor raise ProgrammingError when used from a thread
\* other than the one that created them (the UI thread).
check_same_thread == TRUE

\* SELECT ... FROM components LIMIT 10: the size of a price-update batch.
BatchLimit == 10

\* ------------------------------------------------------------- state

VARIABLES
    components,       \* table components, as the connection sees it
    projects,         \* table projects
    bom,              \* table bom
    price_history,    \* table price_history
    activity_log,     \* number of rows of table activity_log
    disk,             \* the tables as last committed
    notice,           \* the last messagebox shown by the last handler
    last_op,          \* the handler that ran last
    components_tree,  \* rows shown in the components view
    projects_tree,    \* ids shown in the projects view
    project_combo,    \* names offered by the BOM tab's project selector
    project_var,      \* the BOM tab's selected project name
    stats,            \* the four dashboard counters as displayed
    import_dialog,    \* <<>>, or of the open Import BOM dialog <<the projects
                      \* it read>> or <<the projects, the rows of its file>>
    bom_tree,         \* rows shown in the BOM view
    bom_cost_label,   \* the BOM view's "Total Cost per Unit"
    settings,         \* the settings read from the settings file
    status,           \* the status bar: message and busy indicator
    threads,          \* update_worker threads started and not yet run
    after_queue,      \* callbacks posted with root.after, oldest first
    alerts,           \* the alerts panel of the dashboard
    report,           \* the report file generate_report wrote last
    steps             \* handlers started by the user so far

vars == <<components, projects, bom, price_history, activity_log, disk, notice,
          last_op, components_tree, projects_tree, project_combo, project_var,
          stats, import_dialog, bom_tree, bom_cost_label, settings, status,
          threads, after_queue, alerts, report, steps>>

\* What the handlers of the UI thread other than update_prices_octopart
\* leave alone.
worker_vars == <<settings, status, threads, after_queue>>

\* What only update_alerts and generate_report write.
output_vars == <<alerts, report>>

\* ------------------------------------------------------------- views

NoNotice == [kind |-> "none", text |-> ""]

Notice(kind, text) == [kind |-> kind, text |-> text]

\* conn.commit(): what the connection sees becomes what is on disk.
Commit(c, p, b, h, a) ==
    [components |-> c, projects |-> p, bom |-> b, price_history |-> h,
     activity_log |-> a]

\* refresh_components: the rows of SELECT ... FROM components ORDER BY mpn
\* (the display order is not modelled; mpn is unique).
refresh_components(comps) ==
    { [iid |-> c.id, mpn |-> c.mpn, manufacturer |-> c.manufacturer,
       stock_qty |-> c.stock_qty, unit_price |-> c.unit_price,
       lifecycle_status |-> c.lifecycle_status] : c \in comps }

\* refresh_projects: the ids of the rows shown in the projects view.
refresh_projects(projs) == { p.id : p \in projs }

\* refresh_projects_combo: the names offered by the BOM tab's selector.
refresh_projects_combo(projs) == { p.name : p \in projs }

\* A low-stock test without "AND min_stock > 0".
LowStockAnyMin(c) ==
    /\ c.stock_qty # NULL
    /\ c.min_stock # NULL
    /\ c.stock_qty[1] < c.min_stock[1]

\* WHERE stock_qty < min_stock AND min_stock > 0 (a NULL operand is no match).
LowStock(c) ==
    /\ c.stock_qty # NULL
    /\ c.min_stock # NULL
    /\ c.stock_qty[1] < c.min_stock[1]
    /\ c.min_stock[1] > 0

\* update_dashboard_stats: the four COUNT(*) queries.
update_dashboard_stats(comps, projs) ==
    [projects |-> Cardinality(projs),
     components |-> Cardinality(comps),
     low_stock |-> Cardinality({c \in comps : LowStock(c)}),
     obsolete |-> Cardinality({c \in comps :
                      c.lifecycle_status \in {"Obsolete", "EOL"}})]

\* ------------------------------------------------------------- alerts

\* price_changes[:5]: the most price-increase lines the alerts panel shows.
AlertLimit == 5

\* WHERE lifecycle_status IN ('Obsolete', 'EOL', 'NRND')
LifecycleAlert(c) == c.lifecycle_status \in {"Obsolete", "EOL", "NRND"}

\* A price test that also accepts an increase of exactly 10%.
PriceRoseAtLeastTenth(old_price, new_price) == 10 * new_price >= 11 * old_price

\* ph2.price > ph1.price * 1.1, on whole prices.
PriceRose(old_price, new_price) == 10 * new_price > 11 * old_price

\* The rows of components c JOIN price_history ph1 JOIN price_history ph2
\* WHERE ph2.date > ph1.date AND ph2.price > ph1.price * 1.1; ph1 and ph2
\* are the rowids of the two entries a row was joined from.
price_pairs(comps, hist) ==
    { [mpn |-> t[1].mpn, old_price |-> t[2].price, new_price |-> t[3].price,
       ph1 |-> t[2].id, ph2 |-> t[3].id] :
      t \in { u \in comps \X hist \X hist :
                 /\ u[1].id = u[2].component_id
                 /\ u[1].id = u[3].component_id
                 /\ u[3].date > u[2].date
                 /\ PriceRose(u[2].price, u[3].price) } }

\* ... GROUP BY c.mpn: the results the query may return, each with one row
\* for each mpn; SQLite takes old_price and new_price from any one row of
\* the group.
price_changes(comps, hist) ==
    LET pairs == price_pairs(comps, hist) IN
    { rows \in SUBSET pairs :
        \A r \in pairs : Cardinality({ q \in rows : q.mpn = r.mpn }) = 1 }

\* price_changes[:5]: the first AlertLimit rows, in the order the query
\* returned them (it has no ORDER BY: any AlertLimit of the rows).
first_rows(rows) ==
    IF Cardinality(rows) <= AlertLimit THEN { rows }
    ELSE { shown \in SUBSET rows : Cardinality(shown) = AlertLimit }

\* update_alerts: the panels it may fill the alerts text with.  low_stock
\* and lifecycle are the lines of the two warning lists, price_changes is
\* the result of the price query and price_lines the lines shown for it;
\* normal tells whether the panel says "All systems normal".
update_alerts(comps, hist) ==
    LET low_stock == { [mpn |-> c.mpn, stock_qty |-> c.stock_qty,
                        min_stock |-> c.min_stock] :
                       c \in { d \in comps : LowStock(d) } }
        obsolete == { [mpn |-> c.mpn,
                       lifecycle_status |-> c.lifecycle_status] :
                      c \in { d \in comps : LifecycleAlert(d) } }
    IN UNION { { [low_stock |-> low_stock,
                  lifecycle |-> obsolete,
                  price_changes |-> rows,
                  price_lines |-> shown,
                  normal |-> low_stock = {} /\ obsolete = {} /\ rows = {}] :
                 shown \in first_rows(rows) } :
               rows \in price_changes(comps, hist) }

\* ------------------------------------------------------------- inputs

\* Texts typed into the Add Component dialog.
MpnTexts == { <<" ">>, <<"A">>, <<" ", "B">> }

ManufacturerTexts == { <<>>, <<"M", " ">> }

StockTexts == { <<>>, <<"x">> }

MinStockTexts == { <<"9">> }

PriceTexts == { <<"3">> }

\* Texts typed into the New Project dialog.
ProjectNameTexts == { <<>>, <<" ", "P">>, <<"Q", "/", "2">> }

\* ------------------------------------------------------------- Init

\* A new database file: init_database creates the empty tables.
EmptyDatabase ==
    [components |-> {}, projects |-> {}, bom |-> {}, price_history |-> {},
     activity_log |-> 0]

\* A database file left by an earlier session: projects P and Q/2 were
\* created, component A was imported into both, component B was added by
\* hand with no price and put on P.  The price of A was recorded twice, at
\* the times 1 and 2.
SampleDatabase ==
    [components |->
        { [id |-> 1, mpn |-> <<"A">>, manufacturer |-> <<"M">>,
           stock_qty |-> NULL, min_stock |-> NULL, unit_price |-> Val(3),
           lifecycle_status |-> "Active", last_checked |-> Val(2)],
          [id |-> 2, mpn |-> <<"B">>, manufacturer |-> <<"M">>,
           stock_qty |-> Val(0), min_stock |-> Val(9), unit_price |-> Val(0),
           lifecycle_status |-> "Active", last_checked |-> NULL] },
     projects |-> { [id |-> 1, name |-> <<"P">>], [id |-> 2, name |-> <<"Q", "/", "2">>] },
     bom |->
        { [id |-> 1, project_id |-> 1, component_id |-> 1,
           reference_designator |-> "R1", quantity |-> 2],
          [id |-> 2, project_id |-> 2, component_id |-> 1,
           reference_designator |-> "R2", quantity |-> 1],
          [id |-> 3, project_id |-> 1, component_id |-> 2,
           reference_designator |-> "R2", quantity |-> 1] },
     price_history |->
        { [id |-> 1, component_id |-> 1, price |-> 1, date |-> 1,
           source |-> "Octopart"],
          [id |-> 2, component_id |-> 1, price |-> 3, date |-> 2,
           source |-> "Octopart"] },
     activity_log |-> 6]

\* load_settings: the defaults (no Octopart API key), or a settings file in
\* which the key was saved.
DefaultSettings == [octopart_api_key |-> ""]

SavedSettings == [octopart_api_key |-> "key"]

\* The installations the application is started on: a first start, and a
\* start on the files of an earlier session.
Installations ==
    { [settings |-> DefaultSettings, db |-> EmptyDatabase],
      [settings |-> SavedSettings, db |-> SampleDatabase] }

\* A status-bar message; n is the number the message carries (0: none).
Status(text, n, working) == [text |-> text, n |-> n, working |-> working]

\* No report file has been written.
NoReport == [written |-> FALSE]

\* The application on the installation inst with the Import BOM dialog as
\* given: load_settings read the settings, init_database opened the database
\* file, the views were filled from it.
Started(inst, dialog) ==
        /\ settings = inst.settings
        /\ components = inst.db.components
        /\ projects = inst.db.projects
        /\ bom = inst.db.bom
        /\ price_history = inst.db.price_history
        /\ activity_log = inst.db.activity_log
        /\ disk = inst.db
        /\ notice = NoNotice
        /\ last_op = "init"
        /\ components_tree = refresh_components(inst.db.components)
        /\ projects_tree = refresh_projects(inst.db.projects)
        /\ project_combo = refresh_projects_combo(inst.db.projects)
        /\ project_var = <<>>
        /\ stats = update_dashboard_stats(inst.db.components, inst.db.projects)
        /\ import_dialog = dialog
        /\ bom_tree = {}
        /\ bom_cost_label = 0
        /\ status = Status("Ready", 0, FALSE)
        /\ threads = 0
        /\ after_queue = <<>>
        /\ alerts \in update_alerts(inst.db.components, inst.db.price_history)
        /\ report = NoReport
        /\ steps = 0

\* The application after its constructor: no dialog is open.
Start(inst) == Started(inst, <<>>)

Init == \E inst \in Installations : Start(inst)

\* ------------------------------------------------------------- drawn stores

\* Stock quantity, minimum stock and lifecycle status of the component A of
\* a drawn store: no stock data, below the minimum, at the minimum, below a
\* minimum of 0, and each lifecycle status the application writes.
ProbeProfiles ==
    { [stock_qty |-> NULL, min_stock |-> NULL, lifecycle_status |-> "Active"],
      [stock_qty |-> Val(0), min_stock |-> Val(9),
       lifecycle_status |-> "Active"],
      [stock_qty |-> Val(0), min_stock |-> Val(9),
       lifecycle_status |-> "NRND"],
      [stock_qty |-> Val(9), min_stock |-> Val(9),
       lifecycle_status |-> "EOL"],
      [stock_qty |-> Val(0 - 1), min_stock |-> Val(0),
       lifecycle_status |-> "Obsolete"] }

\* One price-history entry, as insert_price_history writes it.
HistoryEntry(id, comp_id, price, date) ==
    [id |-> id, component_id |-> comp_id, price |-> price, date |-> date,
     source |-> "Octopart"]

\* The price histories of component A in a drawn store: none; a rise of
\* 20%; a rise of exactly 10%; a rise of 5%; a rise of 20% between entries
\* of the same second; a fall; and two rises in a row (three pairs).
ProbeHistories ==
    { {},
      { HistoryEntry(1, 1, 10, 1), HistoryEntry(2, 1, 12, 2) },
      { HistoryEntry(1, 1, 10, 1), HistoryEntry(2, 1, 11, 2) },
      { HistoryEntry(1, 1, 20, 1), HistoryEntry(2, 1, 21, 2) },
      { HistoryEntry(1, 1, 10, 1), HistoryEntry(2, 1, 12, 1) },
      { HistoryEntry(1, 1, 12, 1), HistoryEntry(2, 1, 10, 2) },
      { HistoryEntry(1, 1, 10, 1), HistoryEntry(2, 1, 12, 2),
        HistoryEntry(3, 1, 14, 3) } }

DigitNames == <<"1", "2", "3", "4", "5", "6", "7", "8", "9">>

\* AlertLimit further components C1, C2, ... whose price rose by 20%.
Crowd == 1..AlertLimit

\* The store drawn from a profile and a history of A and a crowd: A, a
\* component B with a negative stock and a minimum of 0, and the crowd.
DrawnStore(profile, history, crowd) ==
    [components |->
        { [id |-> 1, mpn |-> <<"A">>, manufacturer |-> <<"M">>,
           stock_qty |-> profile.stock_qty, min_stock |-> profile.min_stock,
           unit_price |-> Val(3),
           lifecycle_status |-> profile.lifecycle_status,
           last_checked |-> NULL],
          [id |-> 2, mpn |-> <<"B">>, manufacturer |-> <<"M">>,
           stock_qty |-> Val(0 - 1), min_stock |-> Val(0),
           unit_price |-> Val(0),
           lifecycle_status |-> "Active", last_checked |-> NULL] }
        \cup { [id |-> k + 2, mpn |-> <<"C", DigitNames[k]>>,
                manufacturer |-> <<"M">>, stock_qty |-> NULL,
                min_stock |-> NULL, unit_price |-> Val(12),
                lifecycle_status |-> "Active", last_checked |-> Val(2)] :
               k \in crowd },
     projects |-> { [id |-> 1, name |-> <<"P">>] },
     bom |-> { [id |-> 1, project_id |-> 1, component_id |-> 1,
                reference_designator |-> "R1", quantity |-> 2] },
     price_history |->
        history
        \cup { HistoryEntry(2 * k + 2, k + 2, 10, 1) : k \in crowd }
        \cup { HistoryEntry(2 * k + 3, k + 2, 12, 2) : k \in crowd },
     activity_log |-> 3]

\* The installations whose database is a drawn store: every profile with
\* every history of A, and every history of A next to the crowd.
DrawnInstallations ==
    { [settings |-> SavedSettings, db |-> DrawnStore(p, h, {})] :
      p \in ProbeProfiles, h \in ProbeHistories }
    \cup
    { [settings |-> SavedSettings,
       db |-> DrawnStore(CHOOSE p \in ProbeProfiles : p.stock_qty = NULL,
                         h, Crowd)] :
      h \in ProbeHistories }

StoreInit == \E inst \in DrawnInstallations : Start(inst)

\* ------------------------------------------------------------- add_component

\* An INSERT that binds "Obsolete" where add_component binds "Active".
NewComponentObsolete(id, mpn, manufacturer, stock, min, price) ==
    [id |-> id, mpn |-> mpn, manufacturer |-> manufacturer,
     stock_qty |-> Val(stock), min_stock |-> Val(min),
     unit_price |-> Val(price), lifecycle_status |-> "Obsolete",
     last_checked |-> NULL]

\* The row add_component's INSERT writes.
NewComponent(id, mpn, manufacturer, stock, min, price) ==
    [id |-> id, mpn |-> mpn, manufacturer |-> manufacturer,
     stock_qty |-> Val(stock), min_stock |-> Val(min),
     unit_price |-> Val(price), lifecycle_status |-> "Active",
     last_checked |-> NULL]

\* A components table without the UNIQUE constraint on mpn.
MpnNeverTaken(comps, mpn) == FALSE

\* mpn TEXT UNIQUE: an INSERT raises IntegrityError when the mpn is stored.
MpnTaken(comps, mpn) == \E c \in comps : c.mpn = mpn

\* The Save button of the Add Component dialog.
add_component_save(MPN, Manufacturer, StockQty, MinStock, UnitPrice) ==
    LET mpn == strip(MPN)
        manufacturer == strip(Manufacturer)
        stock == int_or_0(StockQty)
        min == int_or_0(MinStock)
        price == float_or_0(UnitPrice)
        row == NewComponent(NextRowId(components), mpn, manufacturer,
                            stock.val, min.val, price.val)
        failed(text) ==
            /\ notice' = Notice("error", text)
            /\ UNCHANGED <<components, projects, bom, price_history,
                           activity_log, disk, components_tree, projects_tree,
                           project_combo, project_var, stats, import_dialog,
                           bom_tree, bom_cost_label>>
    IN
    /\ last_op' = "add_component"
    /\ UNCHANGED worker_vars
    /\ UNCHANGED output_vars
    /\ IF mpn = <<>> \/ manufacturer = <<>>
       THEN failed("MPN and Manufacturer are required")
       ELSE IF ~(stock.ok /\ min.ok /\ price.ok)
       THEN failed("Failed to add component: ValueError")
       ELSE IF MpnTaken(components, mpn)
       THEN failed("Failed to add component: IntegrityError")
       ELSE /\ components' = components \cup {row}
            /\ notice' = Notice("info", "Component added successfully")
            /\ components_tree' = refresh_components(components')
            /\ stats' = update_dashboard_stats(components', projects)
            /\ activity_log' = activity_log + 1
            /\ disk' = Commit(components', projects, bom, price_history,
                              activity_log')
            /\ UNCHANGED <<projects, bom, price_history, projects_tree,
                           project_combo, project_var, import_dialog,
                           bom_tree, bom_cost_label>>

\* ------------------------------------------------------------- new_project

\* name TEXT UNIQUE: the INSERT raises IntegrityError when the name is stored.
NameTaken(projs, name) == \E p \in projs : p.name = name

\* The Create Project button of the New Project dialog.
new_project_save(ProjectName) ==
    LET name == strip(ProjectName)
        row == [id |-> NextRowId(projects), name |-> name]
        failed(text) ==
            /\ notice' = Notice("error", text)
            /\ UNCHANGED <<components, projects, bom, price_history,
                           activity_log, disk, components_tree, projects_tree,
                           project_combo, project_var, stats, import_dialog,
                           bom_tree, bom_cost_label>>
    IN
    /\ last_op' = "new_project"
    /\ UNCHANGED worker_vars
    /\ UNCHANGED output_vars
    /\ IF name = <<>>
       THEN failed("Project name is required")
       ELSE IF NameTaken(projects, name)
       THEN failed("Failed to create project: IntegrityError")
       ELSE /\ projects' = projects \cup {row}
            /\ notice' = Notice("info", "Project created successfully")
            /\ projects_tree' = refresh_projects(projects')
            /\ project_combo' = refresh_projects_combo(projects')
            /\ stats' = update_dashboard_stats(components, projects')
            /\ activity_log' = activity_log + 1
            /\ disk' = Commit(components, projects', bom, price_history,
                              activity_log')
            /\ UNCHANGED <<components, bom, price_history, components_tree,
                           project_var, import_dialog, bom_tree,
                           bom_cost_label>>

\* ------------------------------------------------------------- BOM views

RECURSIVE SumOver(_, _)
\* The sum of f[x] over the finite set S.
SumOver(S, f) ==
    IF S = {} THEN 0
    ELSE LET x == CHOOSE y \in S : TRUE IN f[x] + SumOver(S \ {x}, f)

\* The join without its WHERE b.project_id = ? clause.
BomJoinAnyProject(bomT, comps, project_id) ==
    { j \in bomT \X comps : j[1].component_id = j[2].id }

\* FROM bom b JOIN components c ON b.component_id = c.id
\* WHERE b.project_id = ?: the (bom row, component row) pairs.
BomJoin(bomT, comps, project_id) ==
    { j \in bomT \X comps :
        j[1].component_id = j[2].id /\ j[1].project_id = project_id }

\* One row of load_bom's / generate_report's SELECT, with its rowid.
BomItem(j) ==
    [iid |-> j[1].id, reference_designator |-> j[1].reference_designator,
     mpn |-> j[2].mpn, quantity |-> j[1].quantity,
     unit_price |-> j[2].unit_price,
     lifecycle_status |-> j[2].lifecycle_status]

\* load_bom's query (ORDER BY reference_designator is not modelled).
bom_items(bomT, comps, project_id) ==
    { BomItem(j) : j \in BomJoin(bomT, comps, project_id) }

\* A loop that adds the unit prices without the quantities.
total_of_prices(items) ==
    SumOver(items, [i \in items |-> i.unit_price[1]])

\* load_bom's loop: total_cost = 0; total_cost += item[4] * item[5].
total_cost(items) ==
    SumOver(items, [i \in items |-> i.quantity * i.unit_price[1]])

\* SELECT id FROM projects WHERE name=?: the ids found (at most one).
ProjectIds(projs, name) == { p.id : p \in { q \in projs : q.name = name } }

\* load_bom, as the new <<bom_tree, bom_cost_label>>.
load_bom(projs, bomT, comps, project_name, tree, label) ==
    IF project_name = <<>> THEN <<tree, label>>
    ELSE IF ProjectIds(projs, project_name) = {} THEN <<{}, label>>
    ELSE LET project_id == CHOOSE i \in ProjectIds(projs, project_name) : TRUE
             items == bom_items(bomT, comps, project_id)
         IN <<items, total_cost(items)>>

\* A SUM(b.quantity + c.unit_price) in place of the product.
sql_sum_cost_additive(bomT, comps, project_id) ==
    LET J == BomJoin(bomT, comps, project_id) IN
    IF J = {} THEN NULL
    ELSE Val(SumOver(J, [j \in J |-> j[1].quantity + j[2].unit_price[1]]))

\* SELECT SUM(b.quantity * c.unit_price) ...: NULL when no row is joined.
sql_sum_cost(bomT, comps, project_id) ==
    LET J == BomJoin(bomT, comps, project_id) IN
    IF J = {} THEN NULL
    ELSE Val(SumOver(J, [j \in J |-> j[1].quantity * j[2].unit_price[1]]))

\* cost_analysis: unit_cost = result[0] or 0.
unit_cost(bomT, comps, project_id) ==
    LET result == sql_sum_cost(bomT, comps, project_id) IN
    IF result = NULL \/ result[1] = 0 THEN 0 ELSE result[1]

\* ------------------------------------------------------------- import_bom

\* A column the CSV header does not have: row.get(column, default) gives
\* the default.
Absent == <<"absent">>

Get(row_value, default) == IF row_value = Absent THEN default ELSE row_value

\* The data rows a CSV file may hold.
CsvRows ==
    { [MPN |-> <<"A">>, PartNumber |-> Absent, Manufacturer |-> <<"M">>,
       Price |-> <<"3">>, Reference |-> "R1", Qty |-> <<"2">>],
      [MPN |-> Absent, PartNumber |-> <<" ", "A">>, Manufacturer |-> <<"M">>,
       Price |-> Absent, Reference |-> "R2", Qty |-> Absent],
      [MPN |-> <<>>, PartNumber |-> Absent, Manufacturer |-> <<"M">>,
       Price |-> <<"3">>, Reference |-> "R3", Qty |-> <<"2">>],
      [MPN |-> <<"B">>, PartNumber |-> Absent, Manufacturer |-> <<"M">>,
       Price |-> <<"x">>, Reference |-> "R1", Qty |-> <<"x">>],
      [MPN |-> <<"B">>, PartNumber |-> Absent, Manufacturer |-> <<"M">>,
       Price |-> <<>>, Reference |-> "R3", Qty |-> <<"0">>] }

\* The files: up to MaxCsvRows data rows.
CsvFiles == UNION { [1..n -> CsvRows] : n \in 1..MaxCsvRows }

\* mpn = row.get('MPN', row.get('Part Number', '')).strip()
RowMpn(row) == strip(Get(row.MPN, Get(row.PartNumber, <<>>)))

\* float(row.get('Price', 0) or 0)
RowPrice(row) == float_or_0(Get(row.Price, <<>>))

\* int(row.get('Qty', 1))
RowQty(row) ==
    IF row.Qty = Absent THEN [ok |-> TRUE, val |-> 1] ELSE int(row.Qty)

\* SELECT id FROM components WHERE mpn=?
FindByMpn(comps, mpn) == { c \in comps : c.mpn = mpn }

\* An INSERT that leaves unit_price at 0 whatever the row's price.
ImportedComponentUnpriced(id, mpn, manufacturer, price) ==
    [id |-> id, mpn |-> mpn, manufacturer |-> manufacturer,
     stock_qty |-> NULL, min_stock |-> NULL,
     unit_price |-> Val(0), lifecycle_status |-> "Active",
     last_checked |-> NULL]

\* The component row do_import's INSERT writes (the other columns are NULL).
ImportedComponent(id, mpn, manufacturer, price) ==
    [id |-> id, mpn |-> mpn, manufacturer |-> manufacturer,
     stock_qty |-> NULL, min_stock |-> NULL,
     unit_price |-> Val(price), lifecycle_status |-> "Active",
     last_checked |-> NULL]

\* The rows of bom that a new row conflicts with: the table's only
\* uniqueness constraint is its primary key id.
BomConflicts(bomT, new) == { r \in bomT : r.id = new.id }

\* INSERT OR REPLACE INTO bom: the conflicting rows are deleted, the new
\* row is inserted.
insert_or_replace(bomT, new) == (bomT \ BomConflicts(bomT, new)) \cup {new}

\* A loop that skips no row.
skip_no_row(mpn) == FALSE

\* if not mpn: continue
skip_row(mpn) == mpn = <<>>

RECURSIVE import_rows(_, _, _, _)
\* do_import's loop over the rows from the first one on: the tables when it
\* ends, and the exception that ended it ("none" at the end of the file).
import_rows(rows, project_id, comps, bomT) ==
    IF rows = <<>>
    THEN [components |-> comps, bom |-> bomT, exc |-> "none"]
    ELSE
    LET row == Head(rows)
        mpn == RowMpn(row)
        comp == FindByMpn(comps, mpn)
        price == RowPrice(row)
        comp_id == IF comp = {} THEN NextRowId(comps)
                   ELSE (CHOOSE c \in comp : TRUE).id
        comps1 == IF comp = {}
                  THEN comps \cup {ImportedComponent(comp_id, mpn,
                                       Get(row.Manufacturer, <<>>), price.val)}
                  ELSE comps
        qty == RowQty(row)
        line == [id |-> NextRowId(bomT), project_id |-> project_id,
                 component_id |-> comp_id,
                 reference_designator |-> row.Reference,
                 quantity |-> qty.val]
    IN
    IF skip_row(mpn) THEN import_rows(Tail(rows), project_id, comps, bomT)
    ELSE IF comp = {} /\ ~price.ok
    THEN [components |-> comps, bom |-> bomT, exc |-> "ValueError"]
    ELSE IF ~qty.ok
    THEN [components |-> comps1, bom |-> bomT, exc |-> "ValueError"]
    ELSE import_rows(Tail(rows), project_id, comps1,
                     insert_or_replace(bomT, line))

\* File > Import BOM with a file chosen: reads the projects and opens the
\* dialog, or refuses when there is no project.  One dialog is followed: the
\* one opened last.
import_bom ==
    /\ last_op' = "import_bom"
    /\ IF projects = {}
       THEN /\ notice' = Notice("error", "Create a project first")
            /\ UNCHANGED import_dialog
       ELSE /\ notice' = NoNotice
            /\ import_dialog' = <<projects>>
    /\ UNCHANGED <<components, projects, bom, price_history, activity_log,
                   disk, components_tree, projects_tree, project_combo,
                   project_var, stats, bom_tree, bom_cost_label>>
    /\ UNCHANGED worker_vars
    /\ UNCHANGED output_vars

\* The Import button of the dialog, with the project name in its selector
\* and the file as it is read now (<<>>: the file cannot be opened).
do_import(project_name, file) ==
    LET snapshot == import_dialog[1]
        ids == ProjectIds(snapshot, project_name)
        project_id == CHOOSE i \in ids : TRUE
        r == import_rows(file, project_id, components, bom)
        view == load_bom(projects, r.bom, r.components, project_var,
                         bom_tree, bom_cost_label)
        nothing ==
            /\ notice' = NoNotice
            /\ UNCHANGED <<components, projects, bom, price_history,
                           activity_log, disk, components_tree, projects_tree,
                           project_combo, project_var, stats, import_dialog,
                           bom_tree, bom_cost_label>>
    IN
    /\ import_dialog # <<>>
    /\ last_op' = "do_import"
    /\ UNCHANGED worker_vars
    /\ UNCHANGED output_vars
    /\ IF project_name = <<>> THEN nothing
       ELSE IF ids = {} THEN nothing       \* next() raises StopIteration
       ELSE IF file = <<>>
       THEN /\ notice' = Notice("error", "Import failed: FileNotFoundError")
            /\ UNCHANGED <<components, projects, bom, price_history,
                           activity_log, disk, components_tree, projects_tree,
                           project_combo, project_var, stats, import_dialog,
                           bom_tree, bom_cost_label>>
       ELSE IF r.exc # "none"
       THEN /\ components' = r.components
            /\ bom' = r.bom
            /\ notice' = Notice("error", "Import failed: ValueError")
            /\ UNCHANGED <<projects, price_history, activity_log, disk,
                           components_tree, projects_tree, project_combo,
                           project_var, stats, import_dialog, bom_tree,
                           bom_cost_label>>
       ELSE /\ components' = r.components
            /\ bom' = r.bom
            /\ notice' = Notice("info", "BOM imported")
            /\ import_dialog' = <<>>
            /\ components_tree' = refresh_components(components')
            /\ bom_tree' = view[1]
            /\ bom_cost_label' = view[2]
            /\ activity_log' = activity_log + 1
            /\ disk' = Commit(components', projects, bom', price_history,
                              activity_log')
            /\ UNCHANGED <<projects, price_history, projects_tree,
                           project_combo, project_var, stats>>

\* ------------------------------------------------------------- drawn imports

\* The databases an import is applied to: the sample database, the sample
\* database after component A was deleted, and a new database in which
\* project P was created.
ImportDatabases ==
    { SampleDatabase,
      [SampleDatabase EXCEPT
         !.components = { c \in @ : c.mpn # <<"A">> }],
      [EmptyDatabase EXCEPT
         !.projects = { [id |-> 1, name |-> <<"P">>] },
         !.activity_log = 1] }

\* The application with the Import BOM dialog open on a chosen file, whose
\* rows are those the Import button will read.
ImportInit ==
    \E db \in ImportDatabases, file \in CsvFiles :
        Started([settings |-> DefaultSettings, db |-> db],
                <<db.projects, file>>)

\* The Import button of a dialog whose file is known.
import_chosen(project_name) ==
    /\ Len(import_dialog) = 2
    /\ do_import(project_name, import_dialog[2])

\* ------------------------------------------------------------- BOM tab

\* Choosing a name in the BOM tab's selector: <<ComboboxSelected>> runs
\* load_bom.
select_project(name) ==
    LET view == load_bom(projects, bom, components, name, bom_tree,
                         bom_cost_label)
    IN
    /\ project_var' = name
    /\ last_op' = "load_bom"
    /\ notice' = NoNotice
    /\ bom_tree' = view[1]
    /\ bom_cost_label' = view[2]
    /\ UNCHANGED <<components, projects, bom, price_history, activity_log,
                   disk, components_tree, projects_tree, project_combo,
                   stats, import_dialog>>
    /\ UNCHANGED worker_vars
    /\ UNCHANGED output_vars

\* The BOM tab's Refresh button.
refresh_bom ==
    LET view == load_bom(projects, bom, components, project_var, bom_tree,
                         bom_cost_label)
    IN
    /\ last_op' = "load_bom"
    /\ notice' = NoNotice
    /\ bom_tree' = view[1]
    /\ bom_cost_label' = view[2]
    /\ UNCHANGED <<components, projects, bom, price_history, activity_log,
                   disk, components_tree, projects_tree, project_combo,
                   project_var, stats, import_dialog>>
    /\ UNCHANGED worker_vars
    /\ UNCHANGED output_vars

\* ------------------------------------------------------------- cost_analysis

\* The Cost Analysis messagebox: unit cost and its 10x and 100x projections.
CostNotice(unit) ==
    [kind |-> "info", text |-> "Cost Analysis", unit |-> unit,
     x10 |-> unit * 10, x100 |-> unit * 100]

cost_analysis ==
    LET ids == ProjectIds(projects, project_var)
        project_id == CHOOSE i \in ids : TRUE
    IN
    /\ last_op' = "cost_analysis"
    /\ notice' =
         IF project_var = <<>>
         THEN Notice("info", "Select a project in BOM Manager")
         ELSE IF ids = {} THEN NoNotice
         ELSE CostNotice(unit_cost(bom, components, project_id))
    /\ UNCHANGED <<components, projects, bom, price_history, activity_log,
                   disk, components_tree, projects_tree, project_combo,
                   project_var, stats, import_dialog, bom_tree,
                   bom_cost_label>>
    /\ UNCHANGED worker_vars
    /\ UNCHANGED output_vars

\* ------------------------------------------------------------- generate_report

PathSeparator == "/"

\* open(filename, 'w') with the file name
\* f"BOM_Report_{project_name}_{date}.html" in the working directory: a
\* project name that holds a path separator names a file in a directory
\* that does not exist, and open raises FileNotFoundError.
ReportFileOpens(project_name) ==
    \A i \in 1..Len(project_name) : project_name[i] # PathSeparator

\* One table row of the report: the item and ext_price = item[4] * item[5].
ReportLine(item) ==
    [iid |-> item.iid, reference_designator |-> item.reference_designator,
     mpn |-> item.mpn, quantity |-> item.quantity,
     unit_price |-> item.unit_price,
     ext_price |-> item.quantity * item.unit_price[1],
     lifecycle_status |-> item.lifecycle_status]

\* The report file: the table rows and the cost summary.
Report(project_name, items) ==
    [written |-> TRUE,
     project |-> project_name,
     lines |-> { ReportLine(i) : i \in items },
     total_components |-> Cardinality(items),
     unit_cost |-> total_cost(items),
     x10 |-> total_cost(items) * 10,
     x100 |-> total_cost(items) * 100]

\* A generate_report that returns without a messagebox when no project is
\* selected.
NoProjectSilent == NoNotice

\* showinfo("Generate Report", "Please select a project ...")
NoProjectSelected ==
    Notice("info", "Please select a project in the BOM Manager tab first")

\* Tools > Generate Report, and the dashboard's Generate Report button.
generate_report ==
    LET ids == ProjectIds(projects, project_var)
        project_id == CHOOSE i \in ids : TRUE
        items == bom_items(bom, components, project_id)
    IN
    /\ last_op' = "generate_report"
    /\ IF project_var = <<>>
       THEN /\ notice' = NoProjectSelected
            /\ UNCHANGED <<report, activity_log, disk>>
       ELSE IF ids = {}
       THEN /\ notice' = NoNotice
            /\ UNCHANGED <<report, activity_log, disk>>
       ELSE IF \E i \in items : i.unit_price = NULL
       THEN /\ notice' =
                 Notice("error", "Failed to generate report: TypeError")
            /\ UNCHANGED <<report, activity_log, disk>>
       ELSE IF ~ReportFileOpens(project_var)
       THEN /\ notice' =
                 Notice("error",
                        "Failed to generate report: FileNotFoundError")
            /\ UNCHANGED <<report, activity_log, disk>>
       ELSE /\ report' = Report(project_var, items)
            /\ notice' = Notice("info", "Report generated")
            /\ activity_log' = activity_log + 1
            /\ disk' = Commit(components, projects, bom, price_history,
                              activity_log')
    /\ UNCHANGED <<components, projects, bom, price_history, components_tree,
                   projects_tree, project_combo, project_var, stats,
                   import_dialog, bom_tree, bom_cost_label, alerts>>
    /\ UNCHANGED worker_vars

\* ------------------------------------------------------------- delete

\* A delete_project without its DELETE FROM bom.
delete_no_bom_lines(bomT, project_id) == bomT

\* DELETE FROM bom WHERE project_id=?
delete_bom_lines(bomT, project_id) == { b \in bomT : b.project_id # project_id }

\* Projects tab > Delete with the row `project_id` selected, confirmed.
delete_project(project_id) ==
    /\ project_id \in projects_tree
    /\ last_op' = "delete_project"
    /\ notice' = NoNotice
    /\ bom' = delete_bom_lines(bom, project_id)
    /\ projects' = { p \in projects : p.id # project_id }
    /\ projects_tree' = refresh_projects(projects')
    /\ project_combo' = refresh_projects_combo(projects')
    /\ activity_log' = activity_log + 1
    /\ disk' = Commit(components, projects', bom', price_history,
                      activity_log')
    /\ UNCHANGED <<components, price_history, components_tree, project_var,
                   stats, import_dialog, bom_tree, bom_cost_label>>
    /\ UNCHANGED worker_vars
    /\ UNCHANGED output_vars

\* A DELETE FROM components WHERE id >= ?
delete_components_from(comps, comp_id) == { c \in comps : c.id < comp_id }

\* DELETE FROM components WHERE id=?
delete_component_row(comps, comp_id) == { c \in comps : c.id # comp_id }

\* A DELETE FROM components that takes the rows of a table that reference
\* the component with it (ON DELETE CASCADE).
referencing_rows_cascade(table, comp_id) ==
    { r \in table : r.component_id # comp_id }

\* A DELETE FROM components that clears the reference of the rows that
\* reference the component (ON DELETE SET NULL; 0 stands for NULL).
referencing_rows_set_null(table, comp_id) ==
    { IF r.component_id = comp_id THEN [r EXCEPT !.component_id = 0] ELSE r :
        r \in table }

\* The rows of a table that references components (bom, price_history)
\* after DELETE FROM components WHERE id=?: the connection never sets
\* PRAGMA foreign_keys, so that the FOREIGN KEY clauses are not enforced and
\* every row stays.
referencing_rows(table, comp_id) == table

\* Components view > context menu > Delete with the row `comp_id` selected,
\* confirmed.
delete_component(comp_id) ==
    /\ comp_id \in { r.iid : r \in components_tree }
    /\ last_op' = "delete_component"
    /\ notice' = NoNotice
    /\ components' = delete_component_row(components, comp_id)
    /\ bom' = referencing_rows(bom, comp_id)
    /\ price_history' = referencing_rows(price_history, comp_id)
    /\ components_tree' = refresh_components(components')
    /\ disk' = Commit(components', projects, bom', price_history',
                      activity_log)
    /\ UNCHANGED <<projects, activity_log, projects_tree,
                   project_combo, project_var, stats, import_dialog,
                   bom_tree, bom_cost_label>>
    /\ UNCHANGED worker_vars
    /\ UNCHANGED output_vars

\* ------------------------------------------------------------- price update

\* A callback posted with root.after(0, ...): the function it calls and the
\* message (with its number) the call carries.
Callback(fn, text, n) == [fn |-> fn, text |-> text, n |-> n]

\* The answers the worker simulates for one component: a price
\* (random.uniform) and a lifecycle status (random.choice), or an exception
\* raised inside the per-item try; tick tells whether the clock's second
\* has advanced since the last price-history entry was written.
SimulatedPrices == {1, 5}

SimulatedLifecycles == {"Active", "NRND", "EOL"}

Answers ==
    [price : SimulatedPrices, lifecycle : SimulatedLifecycles,
     raises : BOOLEAN, tick : BOOLEAN]

\* SELECT id, mpn, manufacturer FROM components LIMIT 10: the batches the
\* query may return (any BatchLimit rows when there are more).
Batches(comps) ==
    LET ids == { c.id : c \in comps } IN
    IF Cardinality(ids) <= BatchLimit THEN { ids }
    ELSE { S \in SUBSET ids : Cardinality(S) = BatchLimit }

\* datetime.now() and CURRENT_TIMESTAMP, in seconds: not before the date of
\* any price-history entry, and a second later when the clock has ticked.
Now(hist, tick) ==
    LET latest == IF hist = {} THEN 0 ELSE MaxOf({ h.date : h \in hist })
    IN IF tick THEN latest + 1 ELSE latest

\* An UPDATE components without its WHERE id = ?: every row is updated.
update_all_components(comps, comp_id, price, lifecycle, now) ==
    { [c EXCEPT !.unit_price = Val(price), !.lifecycle_status = lifecycle,
                !.last_checked = Val(now)] : c \in comps }

\* UPDATE components SET unit_price = ?, lifecycle_status = ?,
\* last_checked = ? WHERE id = ?
update_component(comps, comp_id, price, lifecycle, now) ==
    { IF c.id = comp_id
      THEN [c EXCEPT !.unit_price = Val(price), !.lifecycle_status = lifecycle,
                     !.last_checked = Val(now)]
      ELSE c : c \in comps }

\* INSERT INTO price_history (component_id, price, source)
\* VALUES (?, ?, 'Octopart'); date defaults to CURRENT_TIMESTAMP.
insert_price_history(hist, comp_id, price, now) ==
    hist \cup { [id |-> NextRowId(hist), component_id |-> comp_id,
                 price |-> price, date |-> now, source |-> "Octopart"] }

RECURSIVE update_batch(_, _, _, _, _)
\* The worker's loop over the batch, by ascending id: the tables and
\* updated_count when it ends.  An item whose update raises is skipped.
update_batch(batch, answer, comps, hist, updated_count) ==
    IF batch = {}
    THEN [components |-> comps, price_history |-> hist,
          updated_count |-> updated_count]
    ELSE
    LET comp_id == CHOOSE i \in batch : \A j \in batch : i <= j
        a == answer[comp_id]
    IN
    IF a.raises
    THEN update_batch(batch \ {comp_id}, answer, comps, hist, updated_count)
    ELSE update_batch(batch \ {comp_id}, answer,
                      update_component(comps, comp_id, a.price, a.lifecycle,
                                       Now(hist, a.tick)),
                      insert_price_history(hist, comp_id, a.price,
                                           Now(hist, a.tick)),
                      updated_count + 1)

\* Components > Update Prices: asks for the API key when none is set, else
\* shows the busy status and starts the worker thread.
update_prices_octopart ==
    /\ last_op' = "update_prices_octopart"
    /\ IF settings.octopart_api_key = ""
       THEN /\ notice' = Notice("askyesno", "API Key Required")
            /\ UNCHANGED <<status, threads>>
       ELSE /\ notice' = NoNotice
            /\ status' = Status("Updating prices from Octopart...", 0, TRUE)
            /\ threads' = threads + 1
    /\ UNCHANGED <<components, projects, bom, price_history, activity_log,
                   disk, components_tree, projects_tree, project_combo,
                   project_var, stats, import_dialog, bom_tree,
                   bom_cost_label, settings, after_queue>>
    /\ UNCHANGED output_vars

\* An outer except that posts the error box only.
FailureCallbacksNoStatus ==
    << Callback("showerror", "Price update failed: ProgrammingError", 0) >>

\* The callbacks the worker's outer except posts.
FailureCallbacks ==
    << Callback("showerror", "Price update failed: ProgrammingError", 0),
       Callback("set_status", "Price update failed", 0) >>

\* The callbacks the worker posts after its commit.
SuccessCallbacks(updated_count) ==
    << Callback("set_status", "Updated components", updated_count),
       Callback("refresh_components", "", 0),
       Callback("update_alerts", "", 0) >>

\* A worker body that posts the success callbacks without conn.commit().
update_worker_try_uncommitted(batch, answer) ==
    LET r == update_batch(batch, answer, components, price_history, 0)
    IN /\ components' = r.components
       /\ price_history' = r.price_history
       /\ disk' = disk
       /\ after_queue' = after_queue \o SuccessCallbacks(r.updated_count)

\* The worker's try body when no statement of it raises outside the
\* per-item try: the loop over the batch, conn.commit(), then the three
\* root.after calls.
update_worker_try(batch, answer) ==
    LET r == update_batch(batch, answer, components, price_history, 0)
    IN /\ components' = r.components
       /\ price_history' = r.price_history
       /\ disk' = Commit(components', projects, bom, price_history',
                         activity_log)
       /\ after_queue' = after_queue \o SuccessCallbacks(r.updated_count)

\* One update_worker thread, from its start to its end.  It uses the cursor
\* of the connection the UI thread opened: under check_same_thread its first
\* execute raises ProgrammingError and the outer except posts the failure
\* callbacks.  Without that check it would run the loop, commit once and post
\* the success callbacks.
update_worker ==
    /\ threads > 0
    /\ threads' = threads - 1
    /\ last_op' = "update_worker"
    /\ IF check_same_thread
       THEN /\ after_queue' = after_queue \o FailureCallbacks
            /\ UNCHANGED <<components, price_history, disk>>
       ELSE \E batch \in Batches(components) :
            \E answer \in [batch -> Answers] :
                update_worker_try(batch, answer)
    /\ UNCHANGED <<projects, bom, activity_log, notice, components_tree,
                   projects_tree, project_combo, project_var, stats,
                   import_dialog, bom_tree, bom_cost_label, settings, status>>
    /\ UNCHANGED output_vars

\* The UI loop runs the oldest posted callback.  The showerror lambda reads
\* the except clause's variable e, which the worker unbinds when it leaves
\* the clause: the lambda shows the messagebox if it runs before that, and
\* raises NameError (no messagebox) if it runs after.
run_callback(shown) ==
    LET cb == Head(after_queue) IN
    /\ after_queue # <<>>
    /\ after_queue' = Tail(after_queue)
    /\ last_op' = "after_callback"
    /\ notice' = IF cb.fn = "showerror" /\ shown
                 THEN Notice("error", cb.text) ELSE NoNotice
    /\ status' = IF cb.fn = "set_status"
                 THEN Status(cb.text, cb.n, FALSE) ELSE status
    /\ components_tree' = IF cb.fn = "refresh_components"
                          THEN refresh_components(components)
                          ELSE components_tree
    /\ IF cb.fn = "update_alerts"
       THEN alerts' \in update_alerts(components, price_history)
       ELSE alerts' = alerts
    /\ UNCHANGED report
    /\ UNCHANGED <<components, projects, bom, price_history, activity_log,
                   disk, projects_tree, project_combo, project_var, stats,
                   import_dialog, bom_tree, bom_cost_label, settings,
                   threads>>

\* ------------------------------------------------------------- store steps

\* The body of the worker's per-item try for the component comp_id with the
\* simulated answer a, applied to the store.
update_item(comp_id, a) ==
    /\ last_op' = "update_item"
    /\ components' = update_component(components, comp_id, a.price,
                                      a.lifecycle, Now(price_history, a.tick))
    /\ price_history' = insert_price_history(price_history, comp_id, a.price,
                                             Now(price_history, a.tick))
    /\ UNCHANGED <<projects, bom, activity_log, disk, notice, components_tree,
                   projects_tree, project_combo, project_var, stats,
                   import_dialog, bom_tree, bom_cost_label>>
    /\ UNCHANGED worker_vars
    /\ UNCHANGED output_vars

\* update_alerts, as the constructor and the worker's last callback call
\* it, applied to the store.
alerts_refresh ==
    /\ last_op' = "update_alerts"
    /\ alerts' \in update_alerts(components, price_history)
    /\ UNCHANGED <<components, projects, bom, price_history, activity_log,
                   disk, notice, components_tree, projects_tree,
                   project_combo, project_var, stats, import_dialog,
                   bom_tree, bom_cost_label, report, steps>>
    /\ UNCHANGED worker_vars

\* update_dashboard_stats, as the constructor and the handlers call it,
\* applied to the store.
stats_refresh ==
    /\ last_op' = "update_dashboard_stats"
    /\ stats' = update_dashboard_stats(components, projects)
    /\ UNCHANGED <<components, projects, bom, price_history, activity_log,
                   disk, notice, components_tree, projects_tree,
                   project_combo, project_var, import_dialog, bom_tree,
                   bom_cost_label, steps>>
    /\ UNCHANGED worker_vars
    /\ UNCHANGED output_vars

\* The worker's try body applied to a store, as a worker thread runs it
\* when its statements do not raise.
worker_batch(batch, answer) ==
    /\ last_op' = "update_worker"
    /\ update_worker_try(batch, answer)
    /\ UNCHANGED <<projects, bom, activity_log, notice, components_tree,
                   projects_tree, project_combo, project_var, stats,
                   import_dialog, bom_tree, bom_cost_label, settings, status,
                   threads>>
    /\ UNCHANGED output_vars

\* ------------------------------------------------------------- Next

AddComponent ==
    \E m \in MpnTexts, f \in ManufacturerTexts, s \in StockTexts,
       n \in MinStockTexts, p \in PriceTexts :
        add_component_save(m, f, s, n, p)

NewProject == \E n \in ProjectNameTexts : new_project_save(n)

ImportBom == import_bom

DoImport ==
    \E n \in { p.name : p \in UNION { import_dialog[i] :
                                        i \in 1..Len(import_dialog) } }
                \cup { <<>> },
       f \in CsvFiles \cup { <<>> } :
        do_import(n, f)

SelectProject == \E n \in project_combo : select_project(n)

RefreshBom == refresh_bom

CostAnalysis == cost_analysis

DeleteProject == \E i \in projects_tree : delete_project(i)

DeleteComponent ==
    \E i \in { r.iid : r \in components_tree } : delete_component(i)

GenerateReport == generate_report

UpdatePrices == update_prices_octopart

UpdateWorker == update_worker

RunCallback == \E shown \in BOOLEAN : run_callback(shown)

\* The user starts a handler, which runs to its end on the UI thread.
Step(A) == steps < MaxSteps /\ A /\ steps' = steps + 1

\* A started worker thread or a posted callback runs to its end.
Background(A) == A /\ UNCHANGED steps

Next ==
    \/ Step(AddComponent)
    \/ Step(NewProject)
    \/ Step(ImportBom)
    \/ Step(DoImport)
    \/ Step(SelectProject)
    \/ Step(RefreshBom)
    \/ Step(CostAnalysis)
    \/ Step(GenerateReport)
    \/ Step(DeleteProject)
    \/ Step(DeleteComponent)
    \/ Step(UpdatePrices)
    \/ Background(UpdateWorker)
    \/ Background(RunCallback)

Spec == Init /\ [][Next]_vars

\* The price update among the handlers that change the components it
\* reads.
WorkerNext ==
    \/ Step(AddComponent)
    \/ Step(DeleteComponent)
    \/ Step(UpdatePrices)
    \/ Background(UpdateWorker)
    \/ Background(RunCallback)

\* The price update with its scheduling: a started worker thread runs to
\* its end, and the UI loop runs every callback posted to it.
FairSpec ==
    /\ Init
    /\ [][WorkerNext]_vars
    /\ WF_vars(Background(UpdateWorker))
    /\ WF_vars(Background(RunCallback))

\* The components whose price the store steps update.
UpdatedIds == { 1 }

UpdateItem ==
    /\ steps < MaxUpdates
    /\ steps' = steps + 1
    /\ \E id \in UpdatedIds, a \in { b \in Answers : ~b.raises } :
           update_item(id, a)

UpdateAlerts == alerts_refresh

UpdateDashboardStats == stats_refresh

StoreNext == UpdateItem \/ UpdateAlerts \/ UpdateDashboardStats

ImportChosen ==
    /\ Len(import_dialog) = 2
    /\ \E n \in { p.name : p \in import_dialog[1] } \cup { <<>> } :
           import_chosen(n)

ImportNext == Step(ImportChosen)

\* do_import applied to drawn databases and files.
ImportSpec == ImportInit /\ [][ImportNext]_vars

\* The answers drawn for the components of a batch.
BatchAnswers == { a \in Answers : a.price = 5 }

WorkerBatch ==
    /\ steps < MaxUpdates
    /\ steps' = steps + 1
    /\ \E batch \in Batches(components) :
       \E answer \in [batch -> BatchAnswers] :
           worker_batch(batch, answer)

BatchNext == WorkerBatch \/ Background(RunCallback)

\* The worker's try body and the callbacks it posts, applied to the
\* databases of the installations.
BatchSpec == Init /\ [][BatchNext]_vars

\* The read-side computations and the per-component price update applied
\* to drawn stores.
StoreSpec == StoreInit /\ [][StoreNext]_vars

\* ------------------------------------------------------------- properties

\* The text t holds nothing but blanks.
Blank(t) == \A i \in 1..Len(t) : t[i] = WS

\* The text t is the text u with blanks before and after it.
Padded(t, u) ==
    \E i \in 0..Len(t) :
        /\ i + Len(u) <= Len(t)
        /\ SubSeq(t, i + 1, i + Len(u)) = u
        /\ Blank(SubSeq(t, 1, i))
        /\ Blank(SubSeq(t, i + Len(u) + 1, Len(t)))

\* C1: BOM import is replace-on-import: after any sequence of imports each
\* (project, component) pair has at most one row in bom; a row imported for
\* a component already on the project's BOM overwrites that line instead of
\* adding a second one.
C1_OneLinePerPair ==
    \A b1, b2 \in bom :
        (b1.project_id = b2.project_id /\ b1.component_id = b2.component_id)
            => b1 = b2

\* C2: in every reachable state of the store, as the connection sees it and
\* as it is committed, no two component rows have the same MPN.
C2_MpnUnique ==
    /\ \A c1, c2 \in components : c1.mpn = c2.mpn => c1 = c2
    /\ \A c1, c2 \in disk.components : c1.mpn = c2.mpn => c1 = c2

\* A BOM import into project 1 found component A in the store and linked
\* its R2 line to it, and A is still the only component with that MPN.
C2_Witness ==
    /\ last_op = "do_import"
    /\ notice = Notice("info", "BOM imported")
    /\ \E c \in components :
         /\ c.mpn = <<"A">>
         /\ \E b \in bom : /\ b.component_id = c.id
                           /\ b.project_id = 1
                           /\ b.reference_designator = "R2"

\* C3: add_component with an MPN that is empty after trimming, with an empty
\* manufacturer, or with an MPN that is already in the store shows an error
\* notice and leaves the components table, seen and committed, unchanged.
C3_AddRejected ==
    [][\A m \in MpnTexts, f \in ManufacturerTexts, s \in StockTexts,
          n \in MinStockTexts, p \in PriceTexts :
          ( /\ add_component_save(m, f, s, n, p)
            /\ \/ Blank(m)
               \/ Blank(f)
               \/ \E c \in components : Padded(m, c.mpn) )
          => /\ notice'.kind = "error"
             /\ components' = components
             /\ disk'.components = disk.components]_vars

\* add_component refused an MPN that is already in the store.
C3_Witness ==
    /\ last_op = "add_component"
    /\ notice = Notice("error", "Failed to add component: IntegrityError")
    /\ components # {}

C5_BatchReportsCount ==
    [][update_worker =>
         \E batch \in Batches(components) :
            /\ \A id \in batch :
                 \E h \in price_history' \ price_history : h.component_id = id
            /\ \E i \in 1..Len(after_queue') :
                 after_queue'[i] =
                     Callback("set_status", "Updated components",
                              Cardinality(batch))]_vars

\* C6: a price-update batch becomes visible and durable as a whole at the
\* single commit that ends the worker: no state shows the updates of part
\* of a batch, and when the worker ends the update and the price-history
\* row of every component of the batch are committed.
C6_BatchCommittedWhole ==
    [][/\ (~update_worker) =>
            /\ price_history' = price_history
            /\ disk'.price_history = disk.price_history
       /\ update_worker =>
            \E batch \in Batches(components) :
               \A id \in batch :
                  \E h \in disk'.price_history \ disk.price_history :
                     h.component_id = id]_vars

\* A row of a CSV file that do_import can process: it names a component,
\* and its Price and Qty are absent or numbers.
Processable(row) ==
    /\ ~Blank(Get(row.MPN, Get(row.PartNumber, <<>>)))
    /\ RowPrice(row).ok
    /\ RowQty(row).ok

\* C7: during BOM import a row that cannot be processed is skipped and every
\* later row of the file is still imported: after the import, every
\* processable row of the file has its line on the project's BOM.
C7_ImportSkipsFailingRow ==
    [][import_dialog # <<>> =>
         \A p \in import_dialog[1], file \in CsvFiles :
            do_import(p.name, file) =>
               \A i \in 1..Len(file) :
                  Processable(file[i]) =>
                     \E b \in bom', c \in components' :
                        /\ b.project_id = p.id
                        /\ b.component_id = c.id
                        /\ Padded(Get(file[i].MPN, file[i].PartNumber), c.mpn)
                        /\ b.reference_designator = file[i].Reference
                        /\ b.quantity = RowQty(file[i]).val]_vars

\* The unit price of the component a BOM line references.
PriceOf(comps, line) ==
    (CHOOSE c \in comps : c.id = line.component_id).unit_price[1]

\* The sum, over the BOM lines of a project whose component is in the
\* store, of quantity times the component's unit price.
LineSum(bomT, comps, project_id) ==
    LET lines == { b \in bomT : /\ b.project_id = project_id
                                /\ \E c \in comps : c.id = b.component_id }
    IN SumOver(lines, [b \in lines |-> b.quantity * PriceOf(comps, b)])

\* C8: the unit cost cost_analysis shows for the selected project is the sum
\* over the project's BOM lines of quantity times the referenced component's
\* unit price: 0 for a project with no lines, and shown also when components
\* have price 0.
C8_UnitCost ==
    (last_op = "cost_analysis" /\ ProjectIds(projects, project_var) # {})
        => \E p \in projects :
              /\ p.name = project_var
              /\ notice = CostNotice(LineSum(bom, components, p.id))

\* cost_analysis showed the unit cost 6 of a project with two units of a
\* component priced 3 and one of a component priced 0.
C8_Witness ==
    /\ last_op = "cost_analysis"
    /\ notice = CostNotice(6)
    /\ \E b \in bom, c \in components :
          /\ b.component_id = c.id
          /\ c.unit_price = Val(0)
          /\ \E p \in projects : p.name = project_var /\ p.id = b.project_id

\* The bom table with the quantity of every line of one project doubled.
DoubledQuantities(bomT, project_id) ==
    { IF b.project_id = project_id THEN [b EXCEPT !.quantity = 2 * @] ELSE b :
        b \in bomT }

\* C9: the unit cost is linear in the quantities: for every project,
\* doubling the quantity of each of its BOM lines, prices unchanged, doubles
\* the unit cost.
C9_CostLinear ==
    \A p \in projects :
        unit_cost(DoubledQuantities(bom, p.id), components, p.id)
            = 2 * unit_cost(bom, components, p.id)

\* After a BOM import a project has a unit cost that is not 0, which
\* doubling its quantities doubles.
C9_Witness ==
    /\ last_op = "do_import"
    /\ notice = Notice("info", "BOM imported")
    /\ \E p \in projects :
          /\ unit_cost(bom, components, p.id) > 6
          /\ unit_cost(DoubledQuantities(bom, p.id), components, p.id)
                = 2 * unit_cost(bom, components, p.id)

\* C10: delete_project(p) removes project p and every BOM line of p, in the
\* store as seen and as committed; the BOM lines of other projects and all
\* components are unchanged.
C10_DeleteProject ==
    [][\A pid \in projects_tree :
          delete_project(pid) =>
             /\ ~ \E p \in projects' : p.id = pid
             /\ ~ \E b \in bom' : b.project_id = pid
             /\ { b \in bom' : b.project_id # pid }
                   = { b \in bom : b.project_id # pid }
             /\ components' = components
             /\ disk'.bom = bom'
             /\ disk'.projects = projects']_vars

\* delete_project removed one of two projects that both had BOM lines: the
\* other project and its lines are in the store.
C10_Witness ==
    /\ last_op = "delete_project"
    /\ Cardinality(projects) = 1
    /\ bom # {}
    /\ \A b \in bom : \E p \in projects : p.id = b.project_id

\* C11: delete_component(id) removes exactly the component row with that id
\* and leaves every other component, every BOM line (the lines that
\* reference the deleted component included) and every price-history entry
\* unchanged.
C11_DeleteComponentFrame ==
    [][\A id \in { r.iid : r \in components_tree } :
         delete_component(id) =>
            /\ \A c \in components : (c \in components') <=> (c.id # id)
            /\ components' \subseteq components
            /\ bom' = bom
            /\ price_history' = price_history]_vars

\* A component that BOM lines reference has been deleted: the lines and
\* another component are still in the store.
C11_Witness ==
    /\ last_op = "delete_component"
    /\ components # {}
    /\ \E b \in bom : \A c \in components : c.id # b.component_id

\* The components with stock data whose stock is below a positive minimum.
LowStockSet ==
    { c \in components :
        /\ c.stock_qty # NULL /\ c.min_stock # NULL
        /\ c.stock_qty[1] < c.min_stock[1]
        /\ c.min_stock[1] > 0 }

\* C12: a component is in the low-stock set, for the alerts panel and for
\* the dashboard's low-stock counter alike, if and only if its stock_qty is
\* strictly less than its min_stock and its min_stock is greater than 0; a
\* component with min_stock = 0 is never in the set, whatever its stock.
\* Checked where the panel and the counter have just been computed.
C12_LowStock ==
    /\ last_op \in {"init", "update_alerts"} =>
          /\ { l.mpn : l \in alerts.low_stock } = { c.mpn : c \in LowStockSet }
          /\ \A c \in components :
                c.min_stock = Val(0) =>
                    \A l \in alerts.low_stock : l.mpn # c.mpn
    /\ last_op \in {"init", "update_dashboard_stats"} =>
          stats.low_stock = Cardinality(LowStockSet)

\* The counter was computed on a store that holds a component below its
\* positive minimum and a component with a negative stock and minimum 0:
\* it counts the first only.
C12_Witness ==
    /\ last_op = "update_dashboard_stats"
    /\ stats.low_stock = 1
    /\ \E c \in components : c.min_stock = Val(0) /\ c.stock_qty[1] < 0
    /\ \E c \in components : c.min_stock = Val(9) /\ c.stock_qty = Val(0)

\* The components whose lifecycle status is Obsolete, EOL or NRND.
LifecycleRiskSet ==
    { c \in components : c.lifecycle_status \in {"Obsolete", "EOL", "NRND"} }

\* C13: the dashboard's lifecycle-risk counter equals the number of
\* components whose lifecycle status is one of Obsolete, EOL or NRND, the
\* set the alerts panel lists.  Checked where the counter and the panel have
\* just been computed.
C13_LifecycleCounter ==
    /\ last_op \in {"init", "update_dashboard_stats"} =>
          stats.obsolete = Cardinality(LifecycleRiskSet)
    /\ last_op = "init" =>
          stats.obsolete = Cardinality(alerts.lifecycle)

\* The components with two price-history entries of which the later-dated
\* one has a price more than 10% above the earlier-dated one's.
PriceIncreaseSet ==
    { c \in components :
        \E h1 \in price_history, h2 \in price_history :
            /\ h1.component_id = c.id /\ h2.component_id = c.id
            /\ h2.date > h1.date
            /\ 10 * (h2.price - h1.price) > h1.price }

\* C14: a component is in the price-increase set if and only if it has two
\* price-history entries such that the later-dated entry's price exceeds
\* the earlier-dated entry's price by strictly more than 10%; an increase of
\* 10% or less does not put the component in the set.  Checked where
\* update_alerts has just run its price query.
C14_PriceIncreaseSet ==
    last_op \in {"init", "update_alerts"} =>
        { r.mpn : r \in alerts.price_changes } =
            { c.mpn : c \in PriceIncreaseSet }

\* update_alerts ran on a store in which the price of A rose by exactly
\* 10% (from 10 to 11) and the prices of other components by more: the
\* query returned the others and not A.
C14_Witness ==
    /\ last_op = "update_alerts"
    /\ \E h1 \in price_history, h2 \in price_history :
          /\ h1.component_id = 1 /\ h2.component_id = 1
          /\ h2.date > h1.date
          /\ 10 * h2.price = 11 * h1.price
    /\ alerts.price_changes # {}
    /\ \A r \in alerts.price_changes : r.mpn # <<"A">>

\* C15: each component that has at least one qualifying price-increase
\* pair appears exactly once in the reported price-increase alerts, however
\* many qualifying pairs it has.  Checked where update_alerts has just
\* filled the panel.
C15_OneLinePerComponent ==
    last_op \in {"init", "update_alerts"} =>
        \A c \in PriceIncreaseSet :
            Cardinality({ l \in alerts.price_lines : l.mpn = c.mpn }) = 1

StatedPrice(row) ==
    IF row.Price \in {Absent, <<>>} THEN 0 ELSE float(row.Price).val

\* The first row of the file that names the MPN of row i.
FirstNaming(file, i) ==
    CHOOSE j \in 1..i :
        /\ RowMpn(file[j]) = RowMpn(file[i])
        /\ \A k \in 1..(j - 1) : RowMpn(file[k]) # RowMpn(file[i])

\* C18: for each imported row whose MPN is not yet in the store, import
\* creates exactly one component with that MPN, lifecycle status 'Active'
\* and the row's price (0 if absent); for a row whose MPN already exists,
\* import creates no component and leaves the existing component's fields
\* unchanged, linking the BOM line to it.  A row is imported when the import
\* it belongs to ends with "BOM imported" and the row names an MPN; a second
\* row naming a new MPN finds the component the first one created.
C18_ImportComponents ==
    [][Len(import_dialog) = 2 /\ last_op' = "do_import"
                              /\ notice'.text = "BOM imported" =>
         \A p \in import_dialog[1], file \in { import_dialog[2] } :
            do_import(p.name, file) =>
               /\ components \subseteq components'
               /\ \A c \in components' \ components :
                     \E i \in 1..Len(file) : RowMpn(file[i]) = c.mpn
               /\ \A i \in 1..Len(file) :
                     RowMpn(file[i]) # <<>> =>
                        \E c \in components' :
                           /\ { d \in components' : d.mpn = RowMpn(file[i]) }
                                 = { c }
                           /\ c \notin components =>
                                 /\ c.lifecycle_status = "Active"
                                 /\ c.unit_price =
                                       Val(StatedPrice(
                                             file[FirstNaming(file, i)]))
                           /\ \E b \in bom' :
                                 /\ b.project_id = p.id
                                 /\ b.component_id = c.id
                                 /\ b.reference_designator =
                                       file[i].Reference]_vars

\* An import created the component A with the price 3 of its row, and put
\* a line on the BOM for the component B that was in the store, whose
\* fields are as they were.
C18_Witness ==
    /\ last_op = "do_import"
    /\ notice.text = "BOM imported"
    /\ \E c \in components :
          /\ c.mpn = <<"A">> /\ c.id = 3 /\ c.unit_price = Val(3)
          /\ c.lifecycle_status = "Active"
    /\ \E c \in components :
          /\ c.mpn = <<"B">> /\ c.min_stock = Val(9)
          /\ \E b \in bom :
                b.component_id = c.id /\ b.reference_designator = "R3"

\* C19: generate_report invoked with no project selected fails with a
\* notice and has no effect: no report is produced and no activity-log
\* entry is written.
C19_NoProjectSelected ==
    [][generate_report /\ project_var = <<>> =>
          /\ notice'.kind # "none"
          /\ report' = report
          /\ activity_log' = activity_log
          /\ disk' = disk
          /\ <<components, projects, bom, price_history>>' =
                <<components, projects, bom, price_history>>]_vars

\* generate_report ran with projects in the store and none selected:
\* the notice is shown and there is no report.
C19_Witness ==
    /\ last_op = "generate_report"
    /\ project_var = <<>>
    /\ projects # {}
    /\ notice.kind = "info"
    /\ report = NoReport

\* The BOM lines of a project whose component is in the store.
ReportedLines(project_id) ==
    { b \in bom : /\ b.project_id = project_id
                  /\ \E c \in components : c.id = b.component_id }

\* C20: for every existing project, generate_report succeeds and reports
\* one line per BOM line with extended price = quantity times unit price, a
\* unit cost equal to the sum of the extended prices, and 10-unit and
\* 100-unit projections equal to 10 and 100 times the unit cost; for a
\* project with no BOM lines it still produces a report with zero lines and
\* zero cost.  A BOM line is one whose component is in the store.
C20_ReportForEveryProject ==
    (last_op = "generate_report" /\ ProjectIds(projects, project_var) # {})
        => \E p \in projects :
              /\ p.name = project_var
              /\ report.written
              /\ report.project = p.name
              /\ notice.text = "Report generated"
              /\ Cardinality(report.lines) =
                    Cardinality(ReportedLines(p.id))
              /\ \A b \in ReportedLines(p.id) :
                    \E l \in report.lines :
                       /\ l.iid = b.id
                       /\ l.quantity = b.quantity
                       /\ l.ext_price = b.quantity * PriceOf(components, b)
              /\ report.unit_cost = LineSum(bom, components, p.id)
              /\ report.x10 = 10 * report.unit_cost
              /\ report.x100 = 100 * report.unit_cost
              /\ ReportedLines(p.id) = {} =>
                    report.lines = {} /\ report.unit_cost = 0

\* C21: an operation that references a project that does not exist in the
\* store (generate_report, cost_analysis or load_bom with a project name
\* that has no row) surfaces a not-found error to the user as a blocking
\* notice rather than returning silently.
C21_MissingProjectNotice ==
    (/\ last_op \in {"generate_report", "cost_analysis", "load_bom"}
     /\ project_var # <<>>
     /\ ProjectIds(projects, project_var) = {})
        => notice.kind = "error"

\* What the UI thread's widgets show.
ui_state ==
    <<status, notice, components_tree, projects_tree, project_combo,
      project_var, stats, bom_tree, bom_cost_label, alerts>>

C23_BatchTerminates ==
    /\ [](threads > 0 => <>(threads = 0))
    /\ [](status.working =>
            <>(/\ ~status.working
               /\ status.text \in {"Updated components",
                                    "Price update failed"}))

\* The worker of a started batch has ended and the UI loop has run its
\* callbacks: the status shows the failure message and is not busy.
C23_Witness ==
    /\ last_op = "after_callback"
    /\ threads = 0
    /\ after_queue = <<>>
    /\ status = Status("Price update failed", 0, FALSE)

\* A row with its MPN missing (no MPN and no Part Number value) or empty.
WithoutMpn(row) ==
    { [row EXCEPT !.MPN = Absent, !.PartNumber = Absent],
      [row EXCEPT !.MPN = Absent, !.PartNumber = <<>>],
      [row EXCEPT !.MPN = <<>>] }

\* The file without its i-th row.
WithoutRow(file, i) ==
    [k \in 1..(Len(file) - 1) |-> IF k < i THEN file[k] ELSE file[k + 1]]

C25_QuantitiesPositive == \A b \in bom : b.quantity > 0

\* C26: identity is never reused across deletion: a component created by
\* add_component or by a BOM import never receives the id of a deleted
\* component, so no BOM line and no price-history entry recorded before its
\* creation carries its id.
C26_IdNeverReused ==
    [][\A c \in components' :
          c.id \notin { d.id : d \in components } =>
             /\ \A b \in bom : b.component_id # c.id
             /\ \A h \in price_history : h.component_id # c.id]_vars

\* C27: in every reachable state every BOM line references a project that
\* exists; an import whose dialog was opened for a project that was deleted
\* before the Import button is pressed inserts no BOM line for it.
C27_BomLinesOfExistingProjects ==
    \A b \in bom : \E p \in projects : p.id = b.project_id

\* The dashboard counters as the store defines them.
StoreCounters ==
    [projects |-> Cardinality(projects),
     components |-> Cardinality(components),
     low_stock |-> Cardinality(LowStockSet),
     obsolete |-> Cardinality(LifecycleRiskSet)]

\* C28: after every operation that changes the store completes on the UI
\* thread (add_component, new_project, delete_component, delete_project,
\* BOM import, completion of a price-update batch), the four displayed
\* dashboard counters equal the current store values: project count,
\* component count, low-stock count and lifecycle-risk count.
C28_DashboardCurrent ==
    [][(\/ /\ last_op' \in {"add_component", "new_project",
                             "delete_component", "delete_project",
                             "do_import"}
           /\ <<components, projects, bom, price_history>>'
                 # <<components, projects, bom, price_history>>
        \/ /\ last_op' = "after_callback"
           /\ after_queue' = <<>>
           /\ status'.text = "Updated components")
          => stats' = StoreCounters']_vars

\* C29: for every project and every store state, the three unit-cost
\* computations agree: the BOM view total (load_bom), the report's unit cost
\* (generate_report) and cost_analysis give the same value, as functions of
\* the store and where each of them has just been run.
C29_UnitCostsAgree ==
    /\ \A p \in projects :
          LET items == bom_items(bom, components, p.id) IN
          /\ load_bom(projects, bom, components, p.name, bom_tree,
                      bom_cost_label)[2] = unit_cost(bom, components, p.id)
          /\ Report(p.name, items).unit_cost =
                unit_cost(bom, components, p.id)
    /\ \A p \in projects :
          /\ (last_op = "load_bom" /\ project_var = p.name) =>
                bom_cost_label = unit_cost(bom, components, p.id)
          /\ (/\ last_op = "generate_report"
              /\ notice.text = "Report generated"
              /\ project_var = p.name) =>
                report.unit_cost = unit_cost(bom, components, p.id)
          /\ (/\ last_op = "cost_analysis"
              /\ notice.text = "Cost Analysis"
              /\ project_var = p.name) =>
                notice.unit = total_cost(bom_items(bom, components, p.id))

\* Project P was selected, its report was generated and its cost analysis
\* was shown: the three give 6, two A at 3 and one B at 0.
C29_Witness ==
    /\ last_op = "cost_analysis"
    /\ project_var = <<"P">>
    /\ notice = CostNotice(6)
    /\ bom_cost_label = 6
    /\ report.written
    /\ report.project = <<"P">>
    /\ report.unit_cost = 6

\* The BOM lines of a project that reference the component c.
LinesOn(project_id, c) ==
    { b \in bom : b.project_id = project_id /\ b.component_id = c.id }

\* C30: after delete_component removes a component that is on a project's
\* BOM, the bom row stays in the store but the line no longer appears in the
\* BOM listing or the report and contributes nothing to the project's unit
\* cost: the cost drops by exactly that line's quantity times the deleted
\* component's price, without any error.  The listing, the report and the
\* cost are those load_bom, generate_report and cost_analysis compute on the
\* store the deletion leaves, and those they show when run after it.
C30_DeletedComponentOffBom ==
    [][/\ last_op' = "delete_component" =>
            \A c \in components :
               (\A d \in components' : d.id # c.id) =>
                  /\ bom' = bom
                  /\ notice'.kind # "error"
                  /\ \A p \in projects :
                        LET gone == { b.id : b \in LinesOn(p.id, c) }
                            before == bom_items(bom, components, p.id)
                            after == bom_items(bom', components', p.id)
                        IN /\ after = { i \in before : i.iid \notin gone }
                           /\ Report(p.name, after).lines =
                                 { ReportLine(i) :
                                     i \in { k \in before : k.iid \notin gone } }
                           /\ unit_cost(bom', components', p.id) =
                                 unit_cost(bom, components, p.id)
                                 - SumOver(LinesOn(p.id, c),
                                           [b \in LinesOn(p.id, c) |->
                                              b.quantity * c.unit_price[1]])
       /\ \A p \in projects' :
             project_var' = p.name =>
                /\ last_op' = "load_bom" =>
                      /\ { i.iid : i \in bom_tree' } =
                            { b.id : b \in ReportedLines(p.id)' }
                      /\ bom_cost_label' = LineSum(bom', components', p.id)
                      /\ notice'.kind # "error"
                /\ (last_op' = "generate_report" /\ ReportFileOpens(p.name)) =>
                      /\ { l.iid : l \in report'.lines } =
                            { b.id : b \in ReportedLines(p.id)' }
                      /\ report'.unit_cost = LineSum(bom', components', p.id)
                      /\ notice'.kind # "error"
                /\ last_op' = "cost_analysis" =>
                      notice' = CostNotice(LineSum(bom', components', p.id))]_vars

\* Component A, of which project P's BOM holds two at 3, was deleted and
\* project P was selected: the bom row of A is in the store, the listing
\* shows the line of B only and the total fell from 6 to 0.
C30_Witness ==
    /\ last_op = "load_bom"
    /\ project_var = <<"P">>
    /\ \A c \in components : c.id # 1
    /\ \E b \in bom :
          b.project_id = 1 /\ b.component_id = 1 /\ b.quantity = 2
    /\ { i.mpn : i \in bom_tree } = { <<"B">> }
    /\ bom_cost_label = 0
    /\ notice.kind # "error"

====
